---- MODULE Spec2Model ----
(***************************************************************************)
(* Model of the report pipeline of ai-fin-report-generator-backend:        *)
(*   ai_service.py     generate_financial_report, generate_demo_report     *)
(*   app.py            the generate-report endpoint and ReportResponse     *)
(*   pdf_generator.py  generate_pdf_report                                 *)
(*                                                                         *)
(* Python values are records [t, s, n, l]: t is the Python type, s the     *)
(* text of a str, n the number of an int/float (or the number of keys of   *)
(* a nested dict), l the elements of a list.  A Python str is a TLA+       *)
(* string; f-strings are concatenations with \o.  A dict with string keys  *)
(* is a function from the set of its keys.                                 *)
(***************************************************************************)
EXTENDS Integers, Sequences, FiniteSets, TLC

\* ------------------------------------------------------------------ bounds
\* longest list the provider gives for top_risks / top_recommendations
MaxItems == 1
\* longest list handed to the renderer for top_risks / top_recommendations
MaxEntries == 4

\* ------------------------------------------------------------ Python values
Str(x)  == [t |-> "str",  s |-> x,  n |-> 0, l |-> <<>>]
Num(x)  == [t |-> "num",  s |-> "", n |-> x, l |-> <<>>]
None    == [t |-> "none", s |-> "", n |-> 0, l |-> <<>>]
List(x) == [t |-> "list", s |-> "", n |-> 0, l |-> x]
\* a nested dict (a JSON object given as a field's value) with x keys
Obj(x)  == [t |-> "dict", s |-> "", n |-> x, l |-> <<>>]

\* the dict with no keys
EmptyDict == [k \in {} |-> None]

\* bool(v): Python truthiness
Truthy(v) ==
    CASE v.t = "str"  -> v.s # ""
      [] v.t = "num"  -> v.n # 0
      [] v.t = "none" -> FALSE
      [] v.t = "list" -> Len(v.l) > 0
      [] v.t = "dict" -> v.n > 0

\* isinstance(v, str), isinstance(v, list)
IsStr(v)  == v.t = "str"
IsList(v) == v.t = "list"

\* ------------------------------------------------------------- text helpers
RECURSIVE Join(_)
\* "".join(parts)
Join(parts) == IF parts = <<>> THEN "" ELSE Head(parts) \o Join(Tail(parts))

RECURSIVE JoinWith(_, _)
\* sep.join(parts)
JoinWith(parts, sep) ==
    IF Len(parts) = 0 THEN ""
    ELSE IF Len(parts) = 1 THEN parts[1]
    ELSE parts[1] \o sep \o JoinWith(Tail(parts), sep)

Abs(x) == IF x < 0 THEN -x ELSE x

\* three digits of a thousands group, zero padded
Pad3(x) ==
    IF x < 10 THEN "00" \o ToString(x)
    ELSE IF x < 100 THEN "0" \o ToString(x)
    ELSE ToString(x)

RECURSIVE Grouped(_)
\* the "," of the format spec: digits in groups of three
Grouped(x) ==
    IF x < 1000 THEN ToString(x)
    ELSE Grouped(x \div 1000) \o "," \o Pad3(x % 1000)

\* f"{x:,.2f}" of a whole amount x
Money(x) == (IF x < 0 THEN "-" ELSE "") \o Grouped(Abs(x)) \o ".00"

\* a / b rounded to the nearest integer, ties to even (b > 0, a >= 0)
RoundDiv(a, b) ==
    LET q == a \div b
        r == a % b
    IN  IF 2 * r > b \/ (2 * r = b /\ q % 2 = 1) THEN q + 1 ELSE q

\* f"{x:.1f}" of a value given in tenths
Tenths(x10) ==
    (IF x10 < 0 THEN "-" ELSE "") \o ToString(Abs(x10) \div 10) \o "."
        \o ToString(Abs(x10) % 10)

\* ------------------------------------------------------------ CompanyData
\* revenue and profit are whole amounts; growth_percentage is held in tenths
\* of a percent (125 is the float 12.5), and f"{growth_percentage}" is its repr.
CompanyData ==
    [company_name   : {"Acme"},
     revenue        : {0, 1250000},
     profit         : {-50000, 300000},
     growth_percentage : {125},
     sector_trends  : {"cloud adoption"},
     key_metrics    : {"EBITDA 21%"},
     risks          : {"currency exposure"},
     recommendations : {"hedge FX"}]

\* the indentation every line of the triple-quoted templates carries
NL == "\n        "

\* profit_margin, in tenths of a percent
profit_margin(data) ==
    IF data.revenue > 0
    THEN (IF data.profit < 0 THEN -1 ELSE 1)
         * RoundDiv(Abs(data.profit) * 1000, data.revenue)
    ELSE 0

generate_demo_report(data) ==
    [executive_summary |-> Str(
        data.company_name
        \o " demonstrates solid financial performance with revenue of ₹"
        \o Money(data.revenue) \o " " \o NL
        \o "and profit of ₹" \o Money(data.profit)
        \o ", resulting in a profit margin of " \o Tenths(profit_margin(data))
        \o "%. " \o NL
        \o "The company shows " \o Tenths(data.growth_percentage)
        \o "% growth, indicating positive market momentum. " \o NL \o NL
        \o "Key sector trends and strategic positioning require attention to maintain competitive advantage. "
        \o NL
        \o "Management should focus on optimizing operational efficiency while addressing identified risks "
        \o NL
        \o "to ensure sustainable growth trajectory."),
     key_trends |-> Str(
        "Current market analysis reveals " \o Tenths(data.growth_percentage)
        \o "% growth rate, which positions " \o NL
        \o data.company_name
        \o " favorably within the sector. Sector trends indicate: "
        \o data.sector_trends \o NL \o NL
        \o "Key performance metrics show: " \o data.key_metrics \o NL \o NL
        \o "The financial fundamentals demonstrate stability with current profit margins at "
        \o Tenths(profit_margin(data)) \o "%. " \o NL
        \o "Revenue diversification and market expansion opportunities should be evaluated to strengthen "
        \o NL
        \o "the company's competitive position."),
     risks |-> Str(
        "Primary risk factors identified include: " \o data.risks \o NL \o NL
        \o "Financial risk assessment indicates potential vulnerabilities in market volatility exposure. "
        \o NL
        \o "Operational risks related to supply chain dependencies and competitive pressures require "
        \o NL
        \o "proactive management strategies." \o NL \o NL
        \o "Regulatory changes and economic uncertainties pose additional challenges that could impact "
        \o NL
        \o "future performance if not adequately addressed through strategic planning."),
     recommendations |-> Str(
        "Strategic recommendations for " \o data.company_name \o ": "
        \o data.recommendations \o NL \o NL
        \o "1. Implement enhanced financial controls and monitoring systems" \o NL
        \o "2. Diversify revenue streams to reduce market concentration risk" \o NL
        \o "3. Invest in technology infrastructure to improve operational efficiency" \o NL
        \o "4. Develop comprehensive risk management framework" \o NL
        \o "5. Strengthen market position through strategic partnerships" \o NL \o NL
        \o "These initiatives should be prioritized based on resource availability and strategic impact."),
     top_risks |-> List(<<
        Str("Market volatility and economic uncertainty"),
        Str("Competitive pressure and market share erosion"),
        Str("Operational inefficiencies and cost escalation")>>),
     top_recommendations |-> List(<<
        Str("Diversify revenue streams and market presence"),
        Str("Implement advanced analytics for decision making"),
        Str("Strengthen operational risk management processes")>>)]

\* ------------------------------------------------- str.replace, str.title
\* the characters of the strings whose characters the code inspects: the six
\* field names, and the JSON strings a provider may give as the whole response
Chars ==
    [executive_summary |->
        <<"e", "x", "e", "c", "u", "t", "i", "v", "e", "_", "s", "u", "m", "m", "a", "r", "y">>,
     key_trends |-> <<"k", "e", "y", "_", "t", "r", "e", "n", "d", "s">>,
     risks |-> <<"r", "i", "s", "k", "s">>,
     recommendations |->
        <<"r", "e", "c", "o", "m", "m", "e", "n", "d", "a", "t", "i", "o", "n", "s">>,
     top_risks |-> <<"t", "o", "p", "_", "r", "i", "s", "k", "s">>,
     top_recommendations |->
        <<"t", "o", "p", "_", "r", "e", "c", "o", "m", "m", "e", "n", "d", "a", "t", "i", "o", "n", "s">>]
    @@ ("n/a" :> <<"n", "/", "a">>)
    @@ ("executive_summary key_trends top_risks top_recommendations" :>
        <<"e", "x", "e", "c", "u", "t", "i", "v", "e", "_", "s", "u", "m",
         "m", "a", "r", "y", " ", "k", "e", "y", "_", "t", "r", "e", "n",
         "d", "s", " ", "t", "o", "p", "_", "r", "i", "s", "k", "s", " ",
         "t", "o", "p", "_", "r", "e", "c", "o", "m", "m", "e", "n", "d",
         "a", "t", "i", "o", "n", "s">>)

UpperOf ==
    [a |-> "A", b |-> "B", c |-> "C", d |-> "D", e |-> "E", f |-> "F", g |-> "G",
     h |-> "H", i |-> "I", j |-> "J", k |-> "K", l |-> "L", m |-> "M", n |-> "N",
     o |-> "O", p |-> "P", q |-> "Q", r |-> "R", s |-> "S", t |-> "T", u |-> "U",
     v |-> "V", w |-> "W", x |-> "X", y |-> "Y", z |-> "Z"]

IsLower(c) == c \in DOMAIN UpperOf
IsUpper(c) == \E x \in DOMAIN UpperOf : UpperOf[x] = c
IsCased(c) == IsLower(c) \/ IsUpper(c)
Upper(c) == IF IsLower(c) THEN UpperOf[c] ELSE c
Lower(c) == IF IsUpper(c) THEN CHOOSE x \in DOMAIN UpperOf : UpperOf[x] = c ELSE c

\* cs.replace(old, new) for single characters
Replace(cs, old, new) == [i \in 1..Len(cs) |-> IF cs[i] = old THEN new ELSE cs[i]]

\* Title as str.capitalize(): only the first character is upper case
Title_capitalize(cs) ==
    [i \in 1..Len(cs) |-> IF i = 1 THEN Upper(cs[i]) ELSE Lower(cs[i])]

\* cs.title(): a cased character is upper case after an uncased one (or at
\* the start) and lower case after a cased one
Title(cs) ==
    [i \in 1..Len(cs) |->
        IF i = 1 \/ ~IsCased(cs[i - 1]) THEN Upper(cs[i]) ELSE Lower(cs[i])]

\* a in b, for strings given by their characters
IsSubstring(a, b) ==
    \E i \in 0..(Len(b) - Len(a)) : SubSeq(b, i + 1, i + Len(a)) = a

\* ---------------------------------------------------------------- ai_service
required_fields ==
    <<"executive_summary", "key_trends", "risks", "recommendations",
      "top_risks", "top_recommendations">>

Required == {required_fields[i] : i \in 1..Len(required_fields)}

\* f"Analysis for {field.replace('_', ' ').title()} not available."
Placeholder(field) ==
    "Analysis for " \o Join(Title(Replace(Chars[field], "_", " ")))
        \o " not available."

\* What json.loads gives, or the {} of line 53: a dict d, or another value v.
Dict(d)  == [t |-> "dict",  d |-> d,         v |-> None]
Other(v) == [t |-> "other", d |-> EmptyDict, v |-> v]

\* response.text: None, "", text that is no JSON, or the text of a JSON value
NoText      == [t |-> "none",    json |-> Other(None)]
EmptyText   == [t |-> "empty",   json |-> Other(None)]
GarbageText == [t |-> "garbage", json |-> Other(None)]
JsonText(j) == [t |-> "json",    json |-> j]

Returned(d) == [raised |-> FALSE, err |-> "",  v |-> d]
Raised(e)   == [raised |-> TRUE,  err |-> e,   v |-> EmptyDict]

\* Loads with a parser that gives {} for text that is no JSON
Loads_lenient(text) ==
    CASE text.t \in {"none", "empty", "garbage"} -> Returned(Dict(EmptyDict))
      [] text.t = "json"                         -> Returned(text.json)

\* Loads without the `if response_content` guard: json.loads("") raises
Loads_noguard(text) ==
    CASE text.t = "none"                -> Raised("TypeError")
      [] text.t \in {"empty", "garbage"} -> Raised("JSONDecodeError")
      [] text.t = "json"                -> Returned(text.json)

\* line 53: json.loads(response_content) if response_content else {}
Loads(text) ==
    CASE text.t \in {"none", "empty"} -> Returned(Dict(EmptyDict))
      [] text.t = "garbage"           -> Raised("JSONDecodeError")
      [] text.t = "json"              -> Returned(text.json)

\* field in ai_content, where ai_content is a list or a str
Contains(v, field) ==
    CASE v.t = "list" -> \E i \in 1..Len(v.l) : v.l[i] = Str(field)
      [] v.t = "str"  -> IsSubstring(Chars[field], Chars[v.s])

\* FillMissing with a required_fields list that stops after the four texts
FillMissing_textsOnly(d) ==
    [k \in DOMAIN d \cup {required_fields[i] : i \in 1..4} |->
        IF k \in DOMAIN d THEN d[k] ELSE Str("Analysis for " \o k \o " not available.")]

\* lines 61-63 on a dict: every missing required field gets its placeholder
FillMissing(d) ==
    [k \in DOMAIN d \cup Required |->
        IF k \in DOMAIN d THEN d[k] ELSE Str(Placeholder(k))]

\* lines 66-69 for one field: a str becomes a one-element list (d.get(field)
\* is None for a missing key, which is no str)
WrapStr(d, field) ==
    IF field \in DOMAIN d /\ IsStr(d[field])
    THEN [d EXCEPT ![field] = List(<<d[field]>>)]
    ELSE d

NormalizeLists(d) == WrapStr(WrapStr(d, "top_risks"), "top_recommendations")

\* ParseAndRepair that takes a JSON value that is no object as the empty object
ParseAndRepair_coerce(text) ==
    LET loaded == Loads(text)
    IN  IF loaded.raised THEN Raised(loaded.err)
        ELSE IF loaded.v.t = "dict"
        THEN Returned(NormalizeLists(FillMissing(loaded.v.d)))
        ELSE Returned(NormalizeLists(FillMissing(EmptyDict)))

\* lines 52-71, the body of the try after the provider call returned `text`
ParseAndRepair(text) ==
    LET loaded == Loads(text)
        ai     == loaded.v
    IN  IF loaded.raised THEN Raised(loaded.err)
        ELSE IF ai.t = "dict" THEN Returned(NormalizeLists(FillMissing(ai.d)))
        ELSE IF ai.v.t \in {"list", "str"}
        THEN IF \E i \in 1..Len(required_fields) : ~Contains(ai.v, required_fields[i])
             \* line 63: item assignment with a str key on a list or a str
             THEN Raised("TypeError")
             \* line 66: a list or a str has no .get
             ELSE Raised("AttributeError")
        \* line 62: `in` on a number or None
        ELSE Raised("TypeError")

\* lines 73-76: the except branch
OnException(data) == generate_demo_report(data)

\* lines 51-76: what generate_financial_report returns once the provider call
\* has raised (outcome.k = "raise") or returned (outcome.k = "response")
AfterCall(data, outcome) ==
    IF outcome.k = "raise" THEN OnException(data)
    ELSE LET r == ParseAndRepair(outcome.text)
         IN  IF r.raised THEN OnException(data) ELSE r.v

\* ----------------------------------------------------------------- app.py
\* ReportResponse, a field annotated str.  Pydantic 1 turns a number into its
\* text, pydantic 2 refuses it; both refuse None, a list and a dict.
ValidateStr(v, lib) ==
    IF IsStr(v) THEN [ok |-> TRUE, v |-> v]
    ELSE IF v.t = "num" /\ lib = "v1" THEN [ok |-> TRUE, v |-> Str(ToString(v.n))]
    ELSE [ok |-> FALSE, v |-> v]

\* ReportResponse, a field annotated List[str]: a list whose every element
\* is valid as a str
ValidateListStr(v, lib) ==
    IF IsList(v) /\ \A i \in 1..Len(v.l) : ValidateStr(v.l[i], lib).ok
    THEN [ok |-> TRUE, v |-> List([i \in 1..Len(v.l) |-> ValidateStr(v.l[i], lib).v])]
    ELSE [ok |-> FALSE, v |-> v]

ValidateField(field, v, lib) ==
    IF field \in {"top_risks", "top_recommendations"}
    THEN ValidateListStr(v, lib)
    ELSE ValidateStr(v, lib)

Ok(body)     == [status |-> 200, body |-> body,      detail |-> ""]
Failed(why)  == [status |-> 500, body |-> EmptyDict, detail |-> why]

\* lines 68-86 of generate_report: the response built from what
\* generate_financial_report returned, or the HTTPException of the except
BuildResponse(report_content, now, lib) ==
    IF ~(Required \subseteq DOMAIN report_content)
    THEN Failed("Failed to generate report: KeyError")
    ELSE IF \E f \in Required : ~ValidateField(f, report_content[f], lib).ok
    THEN Failed("Failed to generate report: ValidationError")
    ELSE Ok([k \in Required \cup {"id"} |->
                IF k = "id" THEN Str("report_" \o now)
                ELSE ValidateField(k, report_content[k], lib).v])

\* ------------------------------------------------------- provider responses
Absent == [t |-> "absent", s |-> "", n |-> 0, l |-> <<>>]

\* the elements a provider puts in a list
Atoms == {Str("Inflation"), Num(7)}

Lists == UNION {[1..len -> Atoms] : len \in 0..MaxItems}

\* what a provider gives for top_risks or top_recommendations
TopValues ==
    {List(x) : x \in Lists} \cup {Str("Inflation"), Num(7), None, Obj(1), Absent}

\* a JSON object: per key, a value or no value; "disclaimer" is a field
\* the provider adds on its own
JsonChoices ==
    [executive_summary   : {Str("AI summary"), Num(42), None, Absent},
     key_trends          : {Str("AI trends"), Absent},
     risks               : {Str("AI risks"), Obj(1), Absent},
     recommendations     : {Str("AI recommendations"), Absent},
     top_risks           : TopValues,
     top_recommendations : TopValues,
     disclaimer          : {Str("not financial advice"), Absent}]

DictOf(c) == [k \in {x \in DOMAIN c : c[x] # Absent} |-> c[k]]

\* the text of the JSON object of a choice
ObjectText(c) == JsonText(Dict(DictOf(c)))

\* JSON values that are no object: arrays, strings, numbers, null
JsonOthers ==
    {List(<<>>), List(<<Str("AI summary")>>), List(<<Num(7), None>>),
     List([i \in 1..Len(required_fields) |-> Str(required_fields[i])]),
     Str("n/a"),
     Str("executive_summary key_trends top_risks top_recommendations"),
     Num(0), Num(42), None}

\* the texts that are no JSON object
OtherTexts ==
    {NoText, EmptyText, GarbageText} \cup {JsonText(Other(v)) : v \in JsonOthers}

ProviderRaised      == [k |-> "raise",    text |-> NoText]
ProviderReturned(x) == [k |-> "response", text |-> x]
NotCalled           == [k |-> "none",     text |-> NoText]

\* datetime.now().strftime('%Y%m%d_%H%M%S') at line 69
Clock == {"20261101_091500", "20261101_091501"}

\* ------------------------------------------------------------ pdf_generator
\* the flowables appended to `content`
Paragraph(text, style) == [k |-> "Paragraph", text |-> text, style |-> style, h |-> 0]
Spacer(h)              == [k |-> "Spacer",    text |-> "",   style |-> "",    h |-> h]

\* str(v)
PyStr(v) ==
    CASE v.t = "str"  -> v.s
      [] v.t = "num"  -> ToString(v.n)
      [] v.t = "none" -> "None"
      [] OTHER        -> "[...]"

\* the lines of the texts that hold a newline
TextLines ==
    ("Strong quarter.\nMargins improved." :> <<"Strong quarter.", "Margins improved.">>)
    @@ ("Churn fell.\n\nARPU rose." :> <<"Churn fell.", "", "ARPU rose.">>)

LinesOf(text) == IF text \in DOMAIN TextLines THEN TextLines[text] ELSE <<text>>

\* text.replace('\n', '<br/>')
ReplaceNewlines(text) == JoinWith(LinesOf(text), "<br/>")

\* report_data.get(key, default)
Get(report_data, key, default) ==
    IF key \in DOMAIN report_data THEN report_data[key] ELSE default

\* lines 70-72
TitlePage(report_data) ==
    <<Paragraph(PyStr(Get(report_data, "report_title", Str("Financial Report"))),
                "title_style"),
      Spacer(20)>>

\* lines 74-81
CompanyInfo(report_data, today) ==
    <<Paragraph("<b>Company:</b> "
                    \o PyStr(Get(report_data, "company_name", Str("Company"))),
                "body_style"),
      Paragraph("<b>Prepared for:</b> "
                    \o PyStr(Get(report_data, "executive_name", Str("Executive"))),
                "body_style"),
      Paragraph("<b>Date:</b> " \o today, "body_style"),
      Spacer(30)>>

Built(blocks)      == [raised |-> FALSE, err |-> "",  blocks |-> blocks]
Broke(e, blocks)   == [raised |-> TRUE,  err |-> e,   blocks |-> blocks]

\* lines 83-89: report_data['profit'] and report_data['growth_percentage']
\* are subscripted without a test of their presence
FinancialSummary(report_data) ==
    IF "revenue" \notin DOMAIN report_data THEN Built(<<>>)
    ELSE LET l85 == <<Paragraph("Financial Overview", "heading_style")>>
             l86 == <<Paragraph("<b>Revenue:</b> ₹" \o Money(report_data["revenue"].n),
                                "body_style")>>
         IN  IF "profit" \notin DOMAIN report_data
             THEN Broke("KeyError: 'profit'", l85 \o l86)
             ELSE LET l87 == <<Paragraph("<b>Profit:</b> ₹"
                                            \o Money(report_data["profit"].n),
                                         "body_style")>>
                  IN  IF "growth_percentage" \notin DOMAIN report_data
                      THEN Broke("KeyError: 'growth_percentage'", l85 \o l86 \o l87)
                      ELSE Built(l85 \o l86 \o l87 \o
                            <<Paragraph("<b>Growth:</b> "
                                    \o Tenths(report_data["growth_percentage"].n) \o "%",
                                "body_style"),
                              Spacer(20)>>)

\* lines 91-96, 98-103, 116-121: a heading, the text and a spacer
TextSection(report_data, key, heading) ==
    IF key \in DOMAIN report_data
    THEN <<Paragraph(heading, "heading_style"),
           Paragraph(ReplaceNewlines(report_data[key].s), "body_style"),
           Spacer(15)>>
    ELSE <<>>

\* lines 134-138: the last section has no spacer
LastTextSection(report_data, key, heading) ==
    IF key \in DOMAIN report_data
    THEN <<Paragraph(heading, "heading_style"),
           Paragraph(ReplaceNewlines(report_data[key].s), "body_style")>>
    ELSE <<>>

\* enumerate(items[:3], 1), each as f"{i}. {item}"
NumberedItems(items) ==
    [i \in 1..(IF Len(items) < 3 THEN Len(items) ELSE 3) |->
        Paragraph(ToString(i) \o ". " \o PyStr(items[i]), "list_style")]

\* lines 105-114 and 123-132
TopSection(report_data, key, heading) ==
    IF key \in DOMAIN report_data /\ Truthy(report_data[key])
    THEN <<Paragraph(heading, "heading_style")>>
         \o (IF IsList(report_data[key])
             THEN NumberedItems(report_data[key].l)
             ELSE <<Paragraph(PyStr(report_data[key]), "body_style")>>)
         \o <<Spacer(15)>>
    ELSE <<>>

\* NarrativeSections with the risk assessment ahead of the top risks
NarrativeSections_swapped(report_data) ==
    TextSection(report_data, "executive_summary", "Executive Summary")
    \o TextSection(report_data, "key_trends", "Key Trends Analysis")
    \o TextSection(report_data, "risks", "Risk Assessment")
    \o TopSection(report_data, "top_risks", "Top 3 Critical Risks")
    \o TopSection(report_data, "top_recommendations", "Top 3 Priority Recommendations")
    \o LastTextSection(report_data, "recommendations", "Strategic Recommendations")

\* lines 91-138, the sections after the financial summary
NarrativeSections(report_data) ==
    TextSection(report_data, "executive_summary", "Executive Summary")
    \o TextSection(report_data, "key_trends", "Key Trends Analysis")
    \o TopSection(report_data, "top_risks", "Top 3 Critical Risks")
    \o TextSection(report_data, "risks", "Risk Assessment")
    \o TopSection(report_data, "top_recommendations", "Top 3 Priority Recommendations")
    \o LastTextSection(report_data, "recommendations", "Strategic Recommendations")

\* lines 67-143: `blocks` is the content list when the function returns or raises
generate_pdf_report(report_data, today) ==
    LET head == TitlePage(report_data) \o CompanyInfo(report_data, today)
        fin  == FinancialSummary(report_data)
    IN  IF fin.raised THEN Broke(fin.err, head \o fin.blocks)
        ELSE Built(head \o fin.blocks \o NarrativeSections(report_data))

\* the entries of a top_risks / top_recommendations list
Entries == <<Str("A"), Str("B"), Str("C"), Str("D"), Str("E"), Str("F")>>

\* what the caller of export gives for top_risks or top_recommendations
RenderTopValues ==
    {List(SubSeq(Entries, 1, len)) : len \in 0..MaxEntries}
        \cup {Str("Inflation"), Str(""), Absent}

\* the mappings handed to export_report: per key, a value or no value
RenderChoices ==
    [report_title        : {Str("Q3 Review"), Absent},
     company_name        : {Str("Acme"), Absent},
     executive_name      : {Str("J. Doe"), Absent},
     revenue             : {Num(1250000), Absent},
     profit              : {Num(-50000), Absent},
     growth_percentage   : {Num(125), Absent},
     executive_summary   : {Str("Strong quarter.\nMargins improved."), Absent},
     key_trends          : {Str("Churn fell.\n\nARPU rose."), Absent},
     risks               : {Str("Currency exposure."), Absent},
     recommendations     : {Str("Hedge FX."), Absent},
     top_risks           : RenderTopValues,
     top_recommendations : RenderTopValues]

\* datetime.now().strftime('%B %d, %Y') at line 80
Dates == {"November 01, 2026", "December 31, 2026"}

\* -------------------------------------------------------------------- state
VARIABLES
    GEMINI_API_KEY,   \* ai_service.py line 8: "demo_key" when none is configured
    pydantic,         \* the installed pydantic: "v1" or "v2"
    pc,               \* "idle", "calling" (inside generate_content), "done"
    data,             \* the CompanyData of the request
    calls,            \* provider calls made for the request
    outcome,          \* how the provider call ended
    report_content,   \* what generate_financial_report returned
    response,         \* what generate_report answered
    report_data,      \* the mapping handed to export_report
    pdf,              \* how generate_pdf_report ended, with its content list
    export            \* the status export_report answered (0: not asked)

gen_vars    == <<GEMINI_API_KEY, pydantic, pc, data, calls, outcome, report_content, response>>
render_vars == <<report_data, pdf, export>>
vars        == <<gen_vars, render_vars>>

NoData     == [company_name |-> "", revenue |-> 0, profit |-> 0,
               growth_percentage |-> 0, sector_trends |-> "", key_metrics |-> "",
               risks |-> "", recommendations |-> ""]
NoResponse == [status |-> 0, body |-> EmptyDict, detail |-> ""]

InitRequest ==
    /\ pc = "idle"
    /\ data = NoData
    /\ calls = 0
    /\ outcome = NotCalled
    /\ report_content = EmptyDict
    /\ response = NoResponse

InitExport ==
    /\ report_data = EmptyDict
    /\ pdf = Built(<<>>)
    /\ export = 0

Init ==
    /\ GEMINI_API_KEY \in {"demo_key", "AIza-key"}
    /\ pydantic \in {"v1", "v2"}
    /\ InitRequest
    /\ InitExport

\* generate_report and generate_financial_report up to line 49: without a key
\* the demo report is returned and answered; with one the provider is called
Request(d, now) ==
    /\ pc = "idle"
    /\ data' = d
    /\ outcome' = NotCalled
    /\ IF GEMINI_API_KEY = "demo_key"
       THEN /\ calls' = 0
            /\ report_content' = generate_demo_report(d)
            /\ response' = BuildResponse(generate_demo_report(d), now, pydantic)
            /\ pc' = "done"
       ELSE /\ calls' = 1
            /\ report_content' = EmptyDict
            /\ response' = NoResponse
            /\ pc' = "calling"
    /\ UNCHANGED <<GEMINI_API_KEY, pydantic, render_vars>>

\* the rest of both handlers once the provider call has ended with `o`
Complete(o, now) ==
    /\ outcome' = o
    /\ report_content' = AfterCall(data, o)
    /\ response' = BuildResponse(AfterCall(data, o), now, pydantic)
    /\ pc' = "done"
    /\ UNCHANGED <<GEMINI_API_KEY, pydantic, data, calls, render_vars>>

\* generate_content returns: lines 51-71, then the endpoint's lines 68-86
ProviderReturns(text, now) ==
    /\ pc = "calling"
    /\ Complete(ProviderReturned(text), now)

\* ProviderRaises with an except branch that calls the provider once more
ProviderRaises_retry(now) ==
    /\ pc = "calling"
    /\ IF calls < 2
       THEN /\ calls' = calls + 1
            /\ UNCHANGED <<GEMINI_API_KEY, pydantic, pc, data, outcome,
                           report_content, response, render_vars>>
       ELSE Complete(ProviderRaised, now)

\* generate_content raises: lines 73-76, then the endpoint's lines 68-86
ProviderRaises(now) ==
    /\ pc = "calling"
    /\ Complete(ProviderRaised, now)

Next ==
    \/ pc = "idle" /\ \E d \in CompanyData, now \in Clock : Request(d, now)
    \/ pc = "calling" /\ \E c \in JsonChoices, now \in Clock :
            ProviderReturns(ObjectText(c), now)
    \/ pc = "calling" /\ \E text \in OtherTexts, now \in Clock :
            ProviderReturns(text, now)
    \/ pc = "calling" /\ \E now \in Clock : ProviderRaises(now)

Spec == Init /\ [][Next]_vars

\* app.py lines 88-105, export_report: the PDF is answered, or the exception
\* of generate_pdf_report becomes the 500 of the except
ExportReport(rd, today) ==
    /\ export = 0
    /\ report_data' = rd
    /\ pdf' = generate_pdf_report(rd, today)
    /\ export' = IF generate_pdf_report(rd, today).raised THEN 500 ELSE 200
    /\ UNCHANGED gen_vars

InitRender ==
    /\ GEMINI_API_KEY = "demo_key"
    /\ pydantic = "v2"
    /\ InitRequest
    /\ InitExport

NextRender ==
    export = 0 /\ \E c \in RenderChoices, today \in Dates : ExportReport(DictOf(c), today)

SpecRender == InitRender /\ [][NextRender]_vars

\* =================================================================== claims
TopFields  == {"top_risks", "top_recommendations"}
TextFields == Required \ TopFields

\* the placeholder of each field, as the specification words it
PlaceholderText ==
    [executive_summary   |-> "Analysis for Executive Summary not available.",
     key_trends          |-> "Analysis for Key Trends not available.",
     risks               |-> "Analysis for Risks not available.",
     recommendations     |-> "Analysis for Recommendations not available.",
     top_risks           |-> "Analysis for Top Risks not available.",
     top_recommendations |-> "Analysis for Top Recommendations not available."]

\* the provider call returned text
Responded == pc = "done" /\ outcome.k = "response"
\* ... and the text was a JSON object
RespondedObject ==
    Responded /\ outcome.text.t = "json" /\ outcome.text.json.t = "dict"
\* the JSON object the provider gave
GivenObject == outcome.text.json.d

\* C1: when the provider call raises, or returns text that is no JSON,
\* generate_financial_report returns exactly generate_demo_report of the
\* same data.
C1_ErrorGivesDemoReport ==
    (pc = "done" /\ (outcome.k = "raise" \/ (Responded /\ outcome.text.t = "garbage")))
        => report_content = generate_demo_report(data)

C1_Witness ==
    /\ pc = "done"
    /\ outcome.k = "raise"
    /\ data.revenue = 0
    /\ report_content = generate_demo_report(data)

\* C2: whatever the provider did, the value generate_financial_report
\* returns has all six required keys, and so has generate_demo_report's.
C2_SixKeysPresent ==
    pc = "done" =>
        /\ Required \subseteq DOMAIN report_content
        /\ Required \subseteq DOMAIN generate_demo_report(data)

C2_Witness ==
    /\ RespondedObject
    /\ DOMAIN GivenObject = {"key_trends"}
    /\ Required \subseteq DOMAIN report_content

\* C3 (as claimed): in every returned value top_risks and top_recommendations
\* are sequences, whatever the provider gave for them, and a bare string s is
\* returned as [s].
C3_TopFieldsAreSequences ==
    pc = "done" =>
        \A f \in TopFields :
            /\ f \in DOMAIN report_content
            /\ IsList(report_content[f])
            /\ (RespondedObject /\ f \in DOMAIN GivenObject /\ IsStr(GivenObject[f]))
                   => report_content[f] = List(<<GivenObject[f]>>)

\* C4 (as claimed): a generate-report request always ends with report
\* content, never with the server error.
C4_RequestAlwaysAnswersContent ==
    pc = "done" => response.status = 200

\* C5 (as claimed): an empty response delegates to the fallback: the result
\* is generate_demo_report of the data and no field holds a placeholder.
C5_EmptyResponseGivesDemoReport ==
    (Responded /\ outcome.text.t \in {"none", "empty"}) =>
        /\ report_content = generate_demo_report(data)
        /\ \A f \in Required :
              /\ report_content[f] # Str(PlaceholderText[f])
              /\ report_content[f] # List(<<Str(PlaceholderText[f])>>)

\* C5 (amended): an empty response is taken as the empty object: the four
\* text fields hold their placeholder and top_risks and top_recommendations
\* are one-element sequences holding theirs; nothing of the demo report is
\* returned.
C5_EmptyResponseGivesPlaceholders ==
    (Responded /\ outcome.text.t \in {"none", "empty"}) =>
        report_content =
            [f \in Required |->
                IF f \in TopFields
                THEN List(<<Str(PlaceholderText[f])>>)
                ELSE Str(PlaceholderText[f])]

C5_Witness ==
    /\ Responded
    /\ outcome.text.t = "empty"
    /\ report_content["risks"] = Str("Analysis for Risks not available.")

\* C6 (as claimed): every required field absent from the provider's JSON
\* object holds the placeholder string in the returned value, top_risks and
\* top_recommendations included.
C6_AbsentFieldIsPlaceholderString ==
    RespondedObject =>
        \A f \in Required \ DOMAIN GivenObject :
            report_content[f] = Str(PlaceholderText[f])

\* C6 (amended): an absent text field holds the placeholder string; an
\* absent top_risks or top_recommendations holds the one-element sequence
\* of its placeholder string.
C6_AbsentFieldIsPlaceholder ==
    RespondedObject =>
        \A f \in Required \ DOMAIN GivenObject :
            report_content[f] =
                IF f \in TopFields
                THEN List(<<Str(PlaceholderText[f])>>)
                ELSE Str(PlaceholderText[f])

C6_Witness ==
    /\ RespondedObject
    /\ DOMAIN GivenObject = {"executive_summary", "recommendations"}
    /\ report_content["key_trends"] = Str("Analysis for Key Trends not available.")
    /\ report_content["top_risks"] = List(<<Str("Analysis for Top Risks not available.")>>)

\* C10: one request calls the provider at most once: never without a key,
\* once with one, and a call that raised is followed by the demo report,
\* not by a second call.
C10_AtMostOneProviderCall ==
    /\ calls <= 1
    /\ GEMINI_API_KEY = "demo_key" => calls = 0
    /\ (GEMINI_API_KEY # "demo_key" /\ pc \in {"calling", "done"}) => calls = 1
    /\ (pc = "done" /\ outcome.k = "raise")
           => (calls = 1 /\ report_content = generate_demo_report(data))

C10_Witness ==
    /\ pc = "done"
    /\ outcome.k = "raise"
    /\ calls = 1
    /\ response.status = 200

\* ------------------------------------------------------- rendering claims
\* the content list generate_pdf_report has built
content == pdf.blocks

\* the places of a heading in the content list
HeadingAt(text) ==
    {i \in 1..Len(content) : content[i] = Paragraph(text, "heading_style")}

\* the places of all headings
Headings == {i \in 1..Len(content) : content[i].style = "heading_style"}

Numerals == <<"1", "2", "3">>

Min(a, b) == IF a < b THEN a ELSE b

\* The "Top 3" section `heading` over `key`, as C8 words it: present exactly
\* when the key is present with a non-empty value; a sequence gives its first
\* min(n, 3) entries in order, numbered from 1, and no further entry; a
\* string gives one paragraph.
TopSectionAsClaimed(key, heading) ==
    LET gated == key \in DOMAIN report_data /\ Truthy(report_data[key])
        v     == report_data[key]
    IN  /\ (HeadingAt(heading) # {}) <=> gated
        /\ gated =>
            \E i \in HeadingAt(heading) :
                IF IsList(v)
                THEN LET m == Min(Len(v.l), 3)
                     IN  /\ Len(content) >= i + m + 1
                         /\ \A j \in 1..m :
                               content[i + j] =
                                   Paragraph(Numerals[j] \o ". " \o v.l[j].s, "list_style")
                         /\ content[i + m + 1].style # "list_style"
                ELSE /\ Len(content) >= i + 2
                     /\ content[i + 1] = Paragraph(v.s, "body_style")
                     /\ content[i + 2].k = "Spacer"

\* C7 (as claimed): whichever keys the mapping has, rendering ends without
\* an error; an absent key only skips its section.
C7_RenderNeverRaises ==
    export # 0 => (~pdf.raised /\ export = 200)

\* C8 (as claimed): for every rendered mapping the two "Top 3" sections are
\* emitted as the claim describes.
C8_TopSectionsAsClaimed ==
    export # 0 =>
        /\ TopSectionAsClaimed("top_risks", "Top 3 Critical Risks")
        /\ TopSectionAsClaimed("top_recommendations", "Top 3 Priority Recommendations")

\* The same on the renderings that end without an error: the statement of C8
\* fails only where the financial summary raised.
TopSectionsWhenBuilt ==
    export = 200 =>
        /\ TopSectionAsClaimed("top_risks", "Top 3 Critical Risks")
        /\ TopSectionAsClaimed("top_recommendations", "Top 3 Priority Recommendations")

SectionOrder ==
    <<"Financial Overview", "Executive Summary", "Key Trends Analysis",
      "Top 3 Critical Risks", "Risk Assessment",
      "Top 3 Priority Recommendations", "Strategic Recommendations">>

GatingKey ==
    <<"revenue", "executive_summary", "key_trends", "top_risks", "risks",
      "top_recommendations", "recommendations">>

\* the place in SectionOrder of the heading at place i (0: none)
SectionOf(i) ==
    IF \E n \in 1..Len(SectionOrder) : SectionOrder[n] = content[i].text
    THEN CHOOSE n \in 1..Len(SectionOrder) : SectionOrder[n] = content[i].text
    ELSE 0

\* C9: the title block is first, the company / prepared-for / date block
\* follows it for every mapping; the headings come after it, each at most
\* once, in the fixed order, and only for keys the mapping has.
C9_FixedSectionOrder ==
    export # 0 =>
        /\ Len(content) >= 6
        /\ content[1].k = "Paragraph" /\ content[1].style = "title_style"
        /\ content[1].text =
              (IF "report_title" \in DOMAIN report_data
               THEN report_data["report_title"].s ELSE "Financial Report")
        /\ content[2].k = "Spacer"
        /\ content[3] =
              Paragraph("<b>Company:</b> "
                            \o (IF "company_name" \in DOMAIN report_data
                                THEN report_data["company_name"].s ELSE "Company"),
                        "body_style")
        /\ content[4] =
              Paragraph("<b>Prepared for:</b> "
                            \o (IF "executive_name" \in DOMAIN report_data
                                THEN report_data["executive_name"].s ELSE "Executive"),
                        "body_style")
        /\ \E today \in Dates : content[5] = Paragraph("<b>Date:</b> " \o today, "body_style")
        /\ content[6].k = "Spacer"
        /\ \A i \in Headings :
              /\ i > 6
              /\ SectionOf(i) # 0
              /\ GatingKey[SectionOf(i)] \in DOMAIN report_data
        /\ \A i, j \in Headings : i < j => SectionOf(i) < SectionOf(j)

C9_Witness ==
    /\ export = 200
    /\ Cardinality(Headings) = 7
    /\ "report_title" \notin DOMAIN report_data

\* the provider call returned the text of a JSON array
RespondedArray ==
    /\ Responded
    /\ outcome.text.t = "json"
    /\ outcome.text.json.t = "other"
    /\ IsList(outcome.text.json.v)

\* C11: when the provider's text parses as a JSON array (empty, non-empty,
\* or holding the six field names), generate_financial_report returns exactly
\* generate_demo_report of the same data: no field of the result is the
\* array, an element of it, or a placeholder.
C11_ArrayGivesDemoReport ==
    RespondedArray =>
        /\ report_content = generate_demo_report(data)
        /\ \A f \in DOMAIN report_content :
              /\ report_content[f] # outcome.text.json.v
              /\ \A i \in 1..Len(outcome.text.json.v.l) :
                    report_content[f] # outcome.text.json.v.l[i]

C11_Witness ==
    /\ RespondedArray
    /\ \A i \in 1..Len(required_fields) :
          Contains(outcome.text.json.v, required_fields[i])
    /\ report_content = generate_demo_report(data)

====
